---- MODULE Spec2Model ----
(***************************************************************************)
(* State-machine model of monitor_uber.py: one sequential run of the       *)
(* daily Uber Direct monitor (configuration check, per-store fetch,        *)
(* overuse analysis, early-cancellation pass, alert mails, exit).          *)
(* The remote API, the SMTP relay and the process environment are the      *)
(* nondeterministic inputs.                                                *)
(***************************************************************************)
EXTENDS Integers, Sequences, FiniteSets, TLC

(***************************************************************************)
(* Bounds of the model.                                                    *)
(***************************************************************************)
\* how many entries of STORE_NAMES the model keeps
NumStores == 2
\* how many delivery records the API hands out over the whole run
MaxDeliveries == 3

(***************************************************************************)
(* Values.                                                                 *)
(***************************************************************************)
\* a key that is absent from a JSON object / an unset environment variable
NoField == "<absent>"
\* the empty string
Empty == ""

StoreUniverse == <<"s1", "s2", "s3", "s4">>

\* STORE_IDS = list(STORE_NAMES.keys())
STORE_IDS == SubSeq(StoreUniverse, 1, NumStores)

\* Python truthiness of a string-or-absent value
Truthy(v) == v # NoField /\ v # Empty

(***************************************************************************)
(* Strings as the code inspects them: str.upper() and the `in` operator.   *)
(***************************************************************************)
Chars(s) ==
    CASE s = "completed" -> <<"c","o","m","p","l","e","t","e","d">>
      [] s = "canceled" -> <<"c","a","n","c","e","l","e","d">>
      [] s = "Failed" -> <<"F","a","i","l","e","d">>
      [] s = "scheduled" -> <<"s","c","h","e","d","u","l","e","d">>
      [] s = "en_route_to_pickup" ->
            <<"e","n","_","r","o","u","t","e","_","t","o","_","p","i","c","k","u","p">>
      [] s = "en_route_to_dropoff" ->
            <<"e","n","_","r","o","u","t","e","_","t","o","_","d","r","o","p","o","f","f">>
      [] s = "CANCEL" -> <<"C","A","N","C","E","L">>
      [] s = "FAILED" -> <<"F","A","I","L","E","D">>
      [] s = "SCHEDULED" -> <<"S","C","H","E","D","U","L","E","D">>
      [] s = "EN_ROUTE_TO_PICKUP" ->
            <<"E","N","_","R","O","U","T","E","_","T","O","_","P","I","C","K","U","P">>
      [] OTHER -> <<>>

LowerLetters == <<"a","b","c","d","e","f","g","h","i","j","k","l","m",
                  "n","o","p","q","r","s","t","u","v","w","x","y","z">>
UpperLetters == <<"A","B","C","D","E","F","G","H","I","J","K","L","M",
                  "N","O","P","Q","R","S","T","U","V","W","X","Y","Z">>

UpperChar(c) ==
    IF \E i \in 1..Len(LowerLetters) : LowerLetters[i] = c
    THEN UpperLetters[CHOOSE i \in 1..Len(LowerLetters) : LowerLetters[i] = c]
    ELSE c

\* str.upper()
Upper(cs) == [i \in 1..Len(cs) |-> UpperChar(cs[i])]

\* sub in s
Contains(sub, cs) ==
    \E i \in 0..(Len(cs) - Len(sub)) : SubSeq(cs, i + 1, i + Len(sub)) = sub

(***************************************************************************)
(* Delivery records of the list response.  A payload carries the keys the  *)
(* code reads; NoField marks a key the payload does not have.              *)
(***************************************************************************)
Payload(oid, did, st, sid) ==
    [order_id |-> oid, delivery_id |-> did, status |-> st, store_id |-> sid]

Payloads ==
    { Payload("o", NoField, "completed", NoField),
      Payload("o", NoField, "canceled", NoField),
      Payload(NoField, "d", "Failed", NoField),
      Payload(NoField, NoField, "canceled", NoField),
      Payload("o", NoField, "canceled", "s1"),
      Payload("o", NoField, "completed", Empty) }

\* every list of at most n payloads
PayloadLists(n) == UNION { [1..k -> Payloads] : k \in 0..n }

\* what one GET of a store's deliveries list can come back with:
\*   kind "exc"    requests.get or response.json() raised
\*   kind "non200" a response whose status_code is not 200
\*   kind "ok"     a 200 response: its 'deliveries' array, its next-page
\*                 pointer (NoField when absent) and, behind that pointer,
\*                 `more` further records on the following pages
ListResponses(room) ==
    { [kind |-> k, deliveries |-> <<>>, next |-> NoField, more |-> 0] :
          k \in {"exc", "non200"} }
    \cup { [kind |-> "ok", deliveries |-> ds, next |-> NoField, more |-> 0] :
          ds \in PayloadLists(room) }
    \cup { [kind |-> "ok", deliveries |-> ds, next |-> "next-url", more |-> 1] :
          ds \in PayloadLists(room - 1) }

\* what one GET of a delivery's detail can come back with; last is the
\* cancellation_details.last_known_delivery_status of a 200 response
DetailResponses ==
    { [kind |-> k, last |-> NoField] : k \in {"exc", "non200"} }
    \cup { [kind |-> "ok", last |-> l] :
          l \in {NoField, "scheduled", "en_route_to_pickup", "en_route_to_dropoff"} }

\* what the SMTP session of one send_email call can do: succeed, or raise
\* in the named call; a failing quit() may or may not have closed the socket
SmtpOutcomes ==
    {"ok", "connect", "starttls", "login", "sendmail", "quit_closed", "quit_open"}

(***************************************************************************)
(* Pure code.                                                              *)
(***************************************************************************)
\* dict.get(key, default)
Get(v, default) == IF v = NoField THEN default ELSE v

\* {'store_id': store_id, **deliv}: the keys of deliv are laid over the tag
Tag(store_id, deliv) ==
    [deliv EXCEPT !.store_id = IF deliv.store_id # NoField
                                THEN deliv.store_id ELSE store_id]

\* [{'store_id': store_id, **deliv} for deliv in deliveries]
TagAll(store_id, deliveries) ==
    [i \in 1..Len(deliveries) |-> Tag(store_id, deliveries[i])]

\* an insertion-ordered dict of counters is a sequence of <<key, count>>
HasKey(d, k) == \E i \in 1..Len(d) : d[i][1] = k
\* d.get(k, 0)
Count(d, k) == IF HasKey(d, k) THEN d[CHOOSE i \in 1..Len(d) : d[i][1] = k][2] ELSE 0
\* d[k] = d.get(k, 0) + 1
Incr(d, k) ==
    IF HasKey(d, k)
    THEN [i \in 1..Len(d) |-> IF d[i][1] = k THEN <<k, d[i][2] + 1>> ELSE d[i]]
    ELSE Append(d, <<k, 1>>)

\* the overuse threshold of analyze_overuse
OveruseThreshold == 3

RECURSIVE StoreCounts(_)
\* the loop of analyze_overuse over the deliveries
StoreCounts(deliveries) ==
    IF deliveries = <<>> THEN <<>>
    ELSE LET n == Len(deliveries)
             d == StoreCounts(SubSeq(deliveries, 1, n - 1))
             store_id == deliveries[n].store_id
         IN  IF Truthy(store_id) THEN Incr(d, store_id) ELSE d

\* slip: "more than 3" for "at least 3"
IsOveruseStrict(entry) == entry[2] > OveruseThreshold

\* if count >= 3
IsOveruse(entry) == entry[2] >= OveruseThreshold

analyze_overuse(deliveries) == SelectSeq(StoreCounts(deliveries), IsOveruse)

\* order_id = deliv.get('order_id') or deliv.get('delivery_id')
OrderIdOf(deliv) ==
    IF Truthy(deliv.order_id) THEN deliv.order_id ELSE deliv.delivery_id

\* status = deliv.get('status', '').upper();
\* 'CANCEL' in status or status == 'FAILED'
IsCancelOrFailed(deliv) ==
    LET status == Upper(Chars(Get(deliv.status, Empty)))
    IN  Contains(Chars("CANCEL"), status) \/ status = Chars("FAILED")

\* slip: the .upper() of the last known status left out
IsEarlyNoUpper(last) ==
    LET last_status == Chars(Get(last, Empty))
    IN  last_status \in {Chars("SCHEDULED"), Chars("EN_ROUTE_TO_PICKUP")}

\* last_status in ['SCHEDULED', 'EN_ROUTE_TO_PICKUP']
IsEarly(last) ==
    LET last_status == Upper(Chars(Get(last, Empty)))
    IN  last_status \in {Chars("SCHEDULED"), Chars("EN_ROUTE_TO_PICKUP")}

IsPositive(entry) == entry[2] > 0

\* slip: "is None" for "not": an empty token passes
TokenMissingIsNone(token) == token = NoField

\* if not UBER_TOKEN
TokenMissing(token) == ~Truthy(token)

\* slip: the early exit on an empty collection left out
NoDataNever(deliveries) == FALSE

\* if not deliveries
NoData(deliveries) == deliveries = <<>>

\* slip: the password left out of the test
NoEmailConfigFromOnly(from, password) == ~Truthy(from)

\* if not EMAIL_FROM or not EMAIL_PASSWORD
NoEmailConfig(from, password) == ~Truthy(from) \/ ~Truthy(password)

\* slip: an except clause that names the connection errors only
CaughtConnectOnly(outcome) == outcome = "connect"

\* except Exception: every failure of the session is caught
Caught(outcome) == TRUE

\* the connection of smtplib.SMTP(...) exists once the constructor returned
Connected(outcome) == outcome # "connect"

\* server.quit() ran to its end, or failed after closing the socket
Closed(outcome) == outcome \in {"ok", "quit_closed"}

\* server.sendmail(...) returned
Delivered(outcome) == outcome \in {"ok", "quit_closed", "quit_open"}

(***************************************************************************)
(* State.                                                                  *)
(***************************************************************************)
VARIABLES
    pc,             \* where the run stands
    env,            \* UBER_TOKEN, EMAIL_FROM, EMAIL_PASSWORD as read at import
    exitCode,       \* the process's exit code, Running until it ends
    console,        \* the lines main and send_email printed, <<text, argument>>
    store_idx,      \* fetch_all_deliveries: position of the loop in STORE_IDS
    all_deliveries, \* fetch_all_deliveries: the collection; main: deliveries
    overusing,      \* main: the result of analyze_overuse
    deliv_idx,      \* check_early_cancellations: position of the loop
    early_cancels,  \* check_early_cancellations: the dict; main: its result
    listReqs,       \* the list requests issued, as the store ids asked for
    detailReqs,     \* the detail requests issued, as <<record index, order id>>
    listLog,        \* per list request of the fetch call: its store id, the
                    \* kind of its response and the records the response held
    fetchedUnder,   \* per collected record, the store id of its request
    served,         \* records the 200 responses and the pages behind them hold
    lastDetail,     \* the detail response the last loop step got, if any
    smtpSessions,   \* how often smtplib.SMTP(...) was called
    smtpOpen,       \* SMTP connections opened and not closed
    mailsSent,      \* the subjects sendmail accepted
    sendCalls       \* how often send_email was called

vars == <<pc, env, exitCode, console, store_idx, all_deliveries, overusing,
          deliv_idx, early_cancels, listReqs, detailReqs, listLog, fetchedUnder,
          served,
          lastDetail, smtpSessions, smtpOpen, mailsSent, sendCalls>>

\* exitCode is a set: empty while the run has not exited, else {code}
Running == {}

NoDetail == [kind |-> "none", last |-> NoField]

OveruseSubject == "Uber Direct Overuse Alert"
CancelSubject == "Uber Direct Early Cancellation Alert"

Init ==
    /\ pc = "start"
    /\ env \in [UBER_TOKEN : {NoField, Empty, "token"},
                EMAIL_FROM : {Empty, "from"},
                EMAIL_PASSWORD : {NoField, "password"}]
    /\ exitCode = Running
    /\ console = {}
    /\ store_idx = 1
    /\ all_deliveries = <<>>
    /\ overusing = <<>>
    /\ deliv_idx = 1
    /\ early_cancels = <<>>
    /\ listReqs = <<>>
    /\ detailReqs = <<>>
    /\ listLog = <<>>
    /\ fetchedUnder = <<>>
    /\ served = 0
    /\ lastDetail = NoDetail
    /\ smtpSessions = 0
    /\ smtpOpen = 0
    /\ mailsSent = <<>>
    /\ sendCalls = 0

fetchVars == <<store_idx, all_deliveries, listReqs, listLog, fetchedUnder, served>>
cancelVars == <<deliv_idx, early_cancels, detailReqs, lastDetail>>
mailVars == <<smtpSessions, smtpOpen, mailsSent, sendCalls>>

(***************************************************************************)
(* __main__, lines 131-136: the token check.                               *)
(***************************************************************************)
MainStart ==
    /\ pc = "start"
    /\ IF TokenMissing(env.UBER_TOKEN)
       THEN /\ console' = console \cup {<<"Error: Set UBER_TOKEN env var", "">>}
            /\ exitCode' = {1}
            /\ pc' = "done"
       ELSE /\ console' = console \cup {<<"Starting Uber Direct monitor", "">>}
            /\ exitCode' = exitCode
            /\ pc' = "fetch"
    /\ UNCHANGED <<env, overusing, fetchVars, cancelVars, mailVars>>

(***************************************************************************)
(* fetch_all_deliveries, lines 66-86: one turn of the loop over STORE_IDS. *)
(***************************************************************************)
\* slip: break for continue
AfterFailureBreak(idx) == Len(STORE_IDS) + 1

\* where the loop goes after a failed request: on to the next store
AfterFailure(idx) == idx + 1

\* what the collection is after a failed request: what it was
KeptOnFailure(collected) == collected

FetchStore ==
    /\ pc = "fetch"
    /\ store_idx <= Len(STORE_IDS)
    /\ LET store_id == STORE_IDS[store_idx]
       IN  \E resp \in ListResponses(MaxDeliveries - served) :
             /\ listReqs' = Append(listReqs, store_id)
             /\ listLog' = Append(listLog, [store |-> store_id, kind |-> resp.kind,
                                            n |-> Len(resp.deliveries)])
             /\ IF resp.kind = "ok"
                THEN /\ all_deliveries' =
                            all_deliveries \o TagAll(store_id, resp.deliveries)
                     /\ fetchedUnder' = fetchedUnder \o
                            [i \in 1..Len(resp.deliveries) |-> store_id]
                     /\ served' = served + Len(resp.deliveries) + resp.more
                     /\ store_idx' = store_idx + 1
                ELSE /\ all_deliveries' = KeptOnFailure(all_deliveries)
                     /\ fetchedUnder' = KeptOnFailure(fetchedUnder)
                     /\ served' = served
                     /\ store_idx' = AfterFailure(store_idx)
    /\ UNCHANGED <<pc, env, exitCode, console, overusing, cancelVars, mailVars>>

(***************************************************************************)
(* fetch_all_deliveries, lines 88-89, and __main__, lines 136-143: the     *)
(* fetcher returns, main stops on an empty collection or runs              *)
(* analyze_overuse on it.  listLog, fetchedUnder and served describe the   *)
(* fetch call and end with it.                                             *)
(***************************************************************************)
FetchReturn ==
    /\ pc = "fetch"
    /\ store_idx > Len(STORE_IDS)
    /\ IF NoData(all_deliveries)
       THEN /\ console' = console \cup {<<"No data fetched", "">>}
            /\ exitCode' = {0}
            /\ pc' = "done"
            /\ overusing' = overusing
       ELSE /\ console' = console
            /\ exitCode' = exitCode
            /\ pc' = "cancel"
            /\ overusing' = analyze_overuse(all_deliveries)
    /\ listLog' = <<>>
    /\ fetchedUnder' = <<>>
    /\ served' = 0
    /\ UNCHANGED <<env, store_idx, all_deliveries, listReqs, cancelVars, mailVars>>

(***************************************************************************)
(* check_early_cancellations, lines 106-126: one turn of the loop over the *)
(* deliveries.                                                             *)
(***************************************************************************)
CheckDelivery ==
    /\ pc = "cancel"
    /\ deliv_idx <= Len(all_deliveries)
    /\ LET deliv == all_deliveries[deliv_idx]
           order_id == OrderIdOf(deliv)
           store_id == deliv.store_id
       IN  IF Truthy(order_id) /\ IsCancelOrFailed(deliv)
           THEN \E resp \in DetailResponses :
                  /\ detailReqs' = Append(detailReqs, <<deliv_idx, order_id>>)
                  /\ lastDetail' = resp
                  /\ early_cancels' =
                        IF resp.kind = "ok" /\ IsEarly(resp.last)
                        THEN Incr(early_cancels, store_id)
                        ELSE early_cancels
           ELSE /\ lastDetail' = NoDetail
                /\ UNCHANGED <<detailReqs, early_cancels>>
    /\ deliv_idx' = deliv_idx + 1
    /\ UNCHANGED <<pc, env, exitCode, console, overusing, fetchVars, mailVars>>

(***************************************************************************)
(* check_early_cancellations, line 128: the stores with a positive count.  *)
(***************************************************************************)
CheckReturn ==
    /\ pc = "cancel"
    /\ deliv_idx > Len(all_deliveries)
    /\ early_cancels' = SelectSeq(early_cancels, IsPositive)
    /\ lastDetail' = NoDetail
    /\ pc' = "overuse_alert"
    /\ UNCHANGED <<env, exitCode, console, overusing, deliv_idx, detailReqs,
                   fetchVars, mailVars>>

(***************************************************************************)
(* send_email, lines 35-54, called from main; `next` is where main goes on *)
(* when the call returns.                                                  *)
(***************************************************************************)
send_email(subject, outcome, next) ==
    /\ sendCalls' = sendCalls + 1
    /\ IF NoEmailConfig(env.EMAIL_FROM, env.EMAIL_PASSWORD)
       THEN /\ console' = console \cup {<<"[ALERT - NO EMAIL CONFIG]", subject>>}
            /\ UNCHANGED <<smtpSessions, smtpOpen, mailsSent, exitCode>>
            /\ pc' = next
       ELSE /\ smtpSessions' = smtpSessions + 1
            /\ smtpOpen' = IF Connected(outcome) /\ ~Closed(outcome)
                           THEN smtpOpen + 1 ELSE smtpOpen
            /\ mailsSent' = IF Delivered(outcome)
                            THEN Append(mailsSent, subject) ELSE mailsSent
            /\ IF outcome = "ok"
               THEN /\ console' = console \cup {<<"Email sent successfully", subject>>}
                    /\ exitCode' = exitCode
                    /\ pc' = next
               ELSE IF Caught(outcome)
               THEN /\ console' = console \cup {<<"Email failed", "">>}
                    /\ exitCode' = exitCode
                    /\ pc' = next
               ELSE \* the exception leaves send_email and ends the run
                    /\ console' = console \cup {<<"Traceback", "">>}
                    /\ exitCode' = {1}
                    /\ pc' = "done"

(***************************************************************************)
(* __main__, lines 146-150: the overuse alert.                             *)
(***************************************************************************)
OveruseAlert ==
    /\ pc = "overuse_alert"
    /\ IF overusing # <<>>
       THEN \E outcome \in SmtpOutcomes :
              send_email(OveruseSubject, outcome, "cancel_alert")
       ELSE /\ pc' = "cancel_alert"
            /\ UNCHANGED <<exitCode, console, mailVars>>
    /\ UNCHANGED <<env, overusing, fetchVars, cancelVars>>

(***************************************************************************)
(* __main__, lines 152-156: the early-cancellation alert.                  *)
(***************************************************************************)
CancelAlert ==
    /\ pc = "cancel_alert"
    /\ IF early_cancels # <<>>
       THEN \E outcome \in SmtpOutcomes :
              send_email(CancelSubject, outcome, "final")
       ELSE /\ pc' = "final"
            /\ UNCHANGED <<exitCode, console, mailVars>>
    /\ UNCHANGED <<env, overusing, fetchVars, cancelVars>>

(***************************************************************************)
(* __main__, lines 158-161: the closing line; the script ends, exit code 0 *)
(***************************************************************************)
MainFinal ==
    /\ pc = "final"
    /\ console' = console \cup
          {IF overusing = <<>> /\ early_cancels = <<>>
           THEN <<"Daily check complete: No incidents.", "">>
           ELSE <<"Alerts sent for incidents.", "">>}
    /\ exitCode' = {0}
    /\ pc' = "done"
    /\ UNCHANGED <<env, overusing, fetchVars, cancelVars, mailVars>>

Next ==
    \/ MainStart
    \/ FetchStore
    \/ FetchReturn
    \/ CheckDelivery
    \/ CheckReturn
    \/ OveruseAlert
    \/ CancelAlert
    \/ MainFinal

Spec == Init /\ [][Next]_vars

(***************************************************************************)
(* Vocabulary of the properties, stated apart from the code above.         *)
(***************************************************************************)
\* the values a record's store_id takes that name a store
StoreIdValues == { STORE_IDS[i] : i \in 1..Len(STORE_IDS) }

\* how many records of ds have s as their owning store
Occurrences(ds, s) == Cardinality({ i \in 1..Len(ds) : ds[i].store_id = s })

Unset(v) == v \in {NoField, Empty}

TokenSet == ~Unset(env.UBER_TOKEN)

MailUnconfigured == Unset(env.EMAIL_FROM) \/ Unset(env.EMAIL_PASSWORD)

\* the fetcher has gone through STORE_IDS and is about to return
FetchDone == pc = "fetch" /\ store_idx > Len(STORE_IDS)

\* analyze_overuse has run
Analyzed == pc \in {"cancel", "overuse_alert", "cancel_alert", "final"}

\* the cancellation pass stands at a record
AtRecord == pc = "cancel" /\ deliv_idx <= Len(all_deliveries)

DenotesCancelOrFailure(d) == d.status \in {"canceled", "Failed"}

HasIdentifier(d) == ~Unset(d.order_id) \/ ~Unset(d.delivery_id)

EarlyDetail(resp) ==
    resp.kind = "ok" /\ resp.last \in {"scheduled", "en_route_to_pickup"}

\* one more detail request, for the record at index i
OneMoreRequestFor(i) ==
    /\ Len(detailReqs') = Len(detailReqs) + 1
    /\ SubSeq(detailReqs', 1, Len(detailReqs)) = detailReqs
    /\ detailReqs'[Len(detailReqs')][1] = i

\* the count of store s goes up by n, every other count stays
CountsMove(s, n) ==
    \A t \in StoreIdValues \cup {Empty} :
        Count(early_cancels', t) = Count(early_cancels, t) + (IF t = s THEN n ELSE 0)

SuccessLines == { e \in console : e[1] = "Email sent successfully" }

AlertsDue == (IF overusing # <<>> THEN 1 ELSE 0) + (IF early_cancels # <<>> THEN 1 ELSE 0)

(***************************************************************************)
(* Properties.                                                             *)
(***************************************************************************)

\* C1: the result of analyze_overuse holds exactly the store identifiers
\* that own at least 3 records of the collection, each once and paired with
\* its exact number of records; no store with fewer than 3 records and no
\* empty identifier is in it.
C1_OveruseExact ==
    Analyzed =>
        /\ \A s \in StoreIdValues :
              Occurrences(all_deliveries, s) >= 3
                 <=> \E i \in 1..Len(overusing) :
                        overusing[i] = <<s, Occurrences(all_deliveries, s)>>
        /\ \A i \in 1..Len(overusing) :
              /\ overusing[i][1] \in StoreIdValues
              /\ overusing[i][2] = Occurrences(all_deliveries, overusing[i][1])
              /\ overusing[i][2] >= 3
              /\ \A j \in 1..Len(overusing) :
                    overusing[j][1] = overusing[i][1] => j = i

\* C1 happens: a store with three records is reported with count 3
C1_Witness ==
    /\ pc = "cancel"
    /\ overusing = << <<"s1", 3>> >>
    /\ Occurrences(all_deliveries, "s1") = 3

C3_EveryPage == FetchDone => Len(all_deliveries) = served

\* C4: every record of the fetcher's collection has the store identifier of
\* the request it came from as its store_id.
C4_TaggedWithRequest ==
    pc = "fetch" =>
        \A i \in 1..Len(all_deliveries) :
            all_deliveries[i].store_id = fetchedUnder[i]

\* C5: the list requests are one per store, in STORE_IDS order, whatever
\* failed; a failed request leaves the collection as it was and the loop
\* goes to the next store; the returned collection holds, per store, all the
\* records of its response if the request succeeded and none if it failed.
C5_State ==
    /\ listReqs = SubSeq(STORE_IDS, 1, Len(listReqs))
    /\ (pc = "fetch") => Len(listReqs) = store_idx - 1
    /\ (TokenSet /\ pc \notin {"start", "fetch"}) => listReqs = STORE_IDS
    /\ FetchDone =>
          /\ Len(listLog) = Len(STORE_IDS)
          /\ \A k \in 1..Len(listLog) :
                /\ listLog[k].store = STORE_IDS[k]
                /\ Cardinality({ i \in 1..Len(fetchedUnder) :
                                    fetchedUnder[i] = STORE_IDS[k] })
                      = IF listLog[k].kind = "ok" THEN listLog[k].n ELSE 0
          /\ Len(all_deliveries) = Len(fetchedUnder)

C5_Step ==
    (pc = "fetch" /\ Len(listLog') = Len(listLog) + 1
       /\ listLog'[Len(listLog')].kind # "ok")
    => /\ all_deliveries' = all_deliveries
       /\ store_idx' = store_idx + 1
       /\ pc' = "fetch"

C5_SkipFailedStore == []C5_State /\ [][C5_Step]_vars

\* C5 happens: a store's request failed, every store was asked once and
\* the collection still holds another store's records
C5_Witness ==
    /\ FetchDone
    /\ \E k \in 1..Len(listLog) : listLog[k].kind # "ok"
    /\ all_deliveries # <<>>
    /\ listReqs = STORE_IDS

\* C6: with UBER_TOKEN unset or empty the run prints the configuration
\* error and ends with exit code 1, and no list request, no detail request,
\* no send_email call and no SMTP session ever happens.
C6_NoTokenNoCalls ==
    Unset(env.UBER_TOKEN) =>
        /\ pc \in {"start", "done"}
        /\ listReqs = <<>>
        /\ detailReqs = <<>>
        /\ sendCalls = 0
        /\ smtpSessions = 0
        /\ (pc = "done") =>
              /\ exitCode = {1}
              /\ <<"Error: Set UBER_TOKEN env var", "">> \in console

\* C6 happens: a run with an empty token has ended
C6_Witness ==
    /\ env.UBER_TOKEN = Empty
    /\ pc = "done"
    /\ exitCode = {1}

\* C7 as claimed: when the fetcher returned no record the run ends with
\* exit code 0 and the "no incidents" line, both results empty and no
\* send_email call.
C7_AsClaimed ==
    (TokenSet /\ pc = "done" /\ all_deliveries = <<>>) =>
        /\ exitCode = {0}
        /\ <<"Daily check complete: No incidents.", "">> \in console
        /\ overusing = <<>>
        /\ early_cancels = <<>>
        /\ sendCalls = 0

\* C7 amended: when the fetcher returned no record the run ends with exit
\* code 0 and the "No data fetched" line (not the "no incidents" line),
\* neither aggregator is run (no detail request, both results empty) and
\* send_email is never called.
C7_NoDataExit ==
    (TokenSet /\ pc = "done" /\ all_deliveries = <<>>) =>
        /\ exitCode = {0}
        /\ console = {<<"Starting Uber Direct monitor", "">>, <<"No data fetched", "">>}
        /\ overusing = <<>>
        /\ early_cancels = <<>>
        /\ detailReqs = <<>>
        /\ deliv_idx = 1
        /\ sendCalls = 0
        /\ smtpSessions = 0

\* C7 happens: every store was asked, nothing came back, the run has ended
C7_Witness ==
    /\ pc = "done"
    /\ listReqs = STORE_IDS
    /\ all_deliveries = <<>>
    /\ exitCode = {0}

\* C8: a failure in the mail session is caught and logged and does not
\* leave send_email: after the overuse alert the run goes on to the
\* early-cancellation alert, every alert that is due gets its send_email
\* call, and a run that had a token ends with exit code 0.
C8_MailFailureSwallowed ==
    /\ <<"Traceback", "">> \notin console
    /\ (TokenSet /\ pc = "done") => exitCode = {0}
    /\ (pc \in {"final", "done"} /\ all_deliveries # <<>>) => sendCalls = AlertsDue
    /\ (smtpSessions > Cardinality(SuccessLines)) => <<"Email failed", "">> \in console

\* C8 happens: both alerts were due, the first session failed, the second
\* alert was sent and the run ended with exit code 0
C8_Witness ==
    /\ pc = "done"
    /\ exitCode = {0}
    /\ sendCalls = 2
    /\ smtpSessions = 2
    /\ <<"Email failed", "">> \in console
    /\ mailsSent = <<CancelSubject>>

C10_ConnectionClosed == smtpOpen = 0

====
